---- MODULE Spec2Model ----
(***************************************************************************)
(* PolyNodes OSC MCP server (src/server.py): a validating dispatcher that  *)
(* turns one tool call into one OSC message (address, float) sent through  *)
(* a lazily created, module-level UDP client.                              *)
(*                                                                         *)
(* Floats are fixed-point hundredths: 20.0 is 2000, 0.75 is 75, 0.01 is 1. *)
(* Scope strings are sequences of one-character strings, so that lower()   *)
(* and strip() are computed character by character; OSC addresses are     *)
(* plain strings, since the code only passes them on or joins them.        *)
(***************************************************************************)
EXTENDS Integers, Sequences, FiniteSets, TLC

VARIABLES
    osc_client,  \* the module-level _osc_client: None or the client
    created,     \* how many SimpleUDPClient objects were constructed
    wire,        \* the messages handed to client.send_message, in order
    lookups,     \* how many addresses were resolved (addr_map[...] or the f-string)
    accepted,    \* how many calls passed validation and reached _send_osc
    ncalls,      \* how many tool calls were made
    call,        \* the last tool call: its name and its arguments as supplied
    result,      \* what the last tool call returned or raised
    workload,    \* which argument sets the caller draws from
    pc,          \* per thread: the statement of the call it is at
    frame        \* per thread: the locals of the call it is running

vars == <<osc_client, created, wire, lookups, accepted, ncalls, call, result, workload,
          pc, frame>>

\* Calls per run when the caller sweeps the whole argument grid.
MaxCalls == 1

\* Calls per run when the caller issues sequences of calls.
MaxSeqCalls == 2

\* Threads that run one tool call each, when calls run concurrently.
NumThreads == 2

----------------------------------------------------------------------------
\* Strings

macro == <<"m", "a", "c", "r", "o">>

meso == <<"m", "e", "s", "o">>

micro == <<"m", "i", "c", "r", "o">>

freq == <<"f", "r", "e", "q">>

amp == <<"a", "m", "p">>

res == <<"r", "e", "s">>

whitespace == {" ", "\t", "\n", "\r"}

lowercase ==
    [c \in {"A", "B", "C", "D", "E", "F", "G", "H", "I", "J", "K", "L", "M",
            "N", "O", "P", "Q", "R", "S", "T", "U", "V", "W", "X", "Y", "Z"} |->
        CASE c = "A" -> "a" [] c = "B" -> "b" [] c = "C" -> "c" [] c = "D" -> "d"
          [] c = "E" -> "e" [] c = "F" -> "f" [] c = "G" -> "g" [] c = "H" -> "h"
          [] c = "I" -> "i" [] c = "J" -> "j" [] c = "K" -> "k" [] c = "L" -> "l"
          [] c = "M" -> "m" [] c = "N" -> "n" [] c = "O" -> "o" [] c = "P" -> "p"
          [] c = "Q" -> "q" [] c = "R" -> "r" [] c = "S" -> "s" [] c = "T" -> "t"
          [] c = "U" -> "u" [] c = "V" -> "v" [] c = "W" -> "w" [] c = "X" -> "x"
          [] c = "Y" -> "y" [] c = "Z" -> "z"]

\* str.lower(): every cased character becomes its lowercase form.
lower(v) ==
    [i \in 1..Len(v) |-> IF v[i] \in DOMAIN lowercase THEN lowercase[v[i]] ELSE v[i]]

RECURSIVE lstrip(_)
lstrip(v) ==
    IF v # <<>> /\ Head(v) \in whitespace THEN lstrip(Tail(v)) ELSE v

RECURSIVE rstrip(_)
rstrip(v) ==
    IF v # <<>> /\ v[Len(v)] \in whitespace THEN rstrip(SubSeq(v, 1, Len(v) - 1)) ELSE v

\* str.strip(): leading and trailing whitespace removed, inner whitespace kept.
strip(v) == rstrip(lstrip(v))

\* ConfigDict(str_strip_whitespace=True): pydantic strips a str field before
\* the field's validator runs.
str_strip_whitespace(v) == strip(v)

\* What a field validator raises; no scope string equals it.
ValueError == <<"ValueError">>

----------------------------------------------------------------------------
\* The OSC client

DEFAULT_HOST == "127.0.0.1"

DEFAULT_PORT == 4799

None == [id |-> 0]

\* udp_client.SimpleUDPClient(host, port): a new client object; id tells
\* one constructed object from another.
SimpleUDPClient(host, port) == [id |-> created + 1, host |-> host, port |-> port]


\* _get_client that opens a new client for every call.
_get_client_per_call == SimpleUDPClient(DEFAULT_HOST, DEFAULT_PORT)

\* _get_client(): the existing client, or a new one which it also stores.
_get_client ==
    IF osc_client = None THEN SimpleUDPClient(DEFAULT_HOST, DEFAULT_PORT) ELSE osc_client

\* _send_osc that sends the message a second time when the first send fails.
_send_osc_retry(address, value) ==
    \E delivered \in BOOLEAN :
        LET client == _get_client
            m == [client |-> client, address |-> address, value |-> value, delivered |-> delivered]
        IN
        /\ osc_client' = client
        /\ created' = IF client # osc_client THEN created + 1 ELSE created
        /\ wire' = IF delivered THEN Append(wire, m)
                   ELSE Append(Append(wire, m), [m EXCEPT !.delivered = TRUE])
        /\ result' = [kind |-> "sent",
                      body |-> [status |-> "sent", address |-> address, value |-> value]]

\* _send_osc that skips a message equal to the one sent last.
_send_osc_dedupe(address, value) ==
    \E delivered \in BOOLEAN :
        LET client == _get_client
            same == /\ wire # <<>>
                    /\ wire[Len(wire)].address = address
                    /\ wire[Len(wire)].value = value
        IN
        /\ osc_client' = client
        /\ created' = IF client # osc_client THEN created + 1 ELSE created
        /\ wire' = IF same THEN wire
                   ELSE Append(wire, [client |-> client, address |-> address,
                                      value |-> value, delivered |-> delivered])
        /\ result' = IF delivered \/ same
                     THEN [kind |-> "sent",
                           body |-> [status |-> "sent", address |-> address, value |-> value]]
                     ELSE [kind |-> "transport_error", body |-> "OSError"]

\* _send_osc that puts the message in front of the ones handed over before.
_send_osc_newest_first(address, value) ==
    \E delivered \in BOOLEAN :
        LET client == _get_client IN
        /\ osc_client' = client
        /\ created' = IF client # osc_client THEN created + 1 ELSE created
        /\ wire' = <<[client |-> client, address |-> address,
                      value |-> value, delivered |-> delivered]>> \o wire
        /\ result' = IF delivered
                     THEN [kind |-> "sent",
                           body |-> [status |-> "sent", address |-> address, value |-> value]]
                     ELSE [kind |-> "transport_error", body |-> "OSError"]

\* _send_osc that drops the client when a send fails.
_send_osc_reset_on_failure(address, value) ==
    \E delivered \in BOOLEAN :
        LET client == _get_client IN
        /\ osc_client' = IF delivered THEN client ELSE None
        /\ created' = IF client # osc_client THEN created + 1 ELSE created
        /\ wire' = Append(wire, [client |-> client, address |-> address,
                                 value |-> value, delivered |-> delivered])
        /\ result' = IF delivered
                     THEN [kind |-> "sent",
                           body |-> [status |-> "sent", address |-> address, value |-> value]]
                     ELSE [kind |-> "transport_error", body |-> "OSError"]

\* _send_osc that catches the transport's error and confirms all the same.
_send_osc_swallowing(address, value) ==
    \E delivered \in BOOLEAN :
        LET client == _get_client IN
        /\ osc_client' = client
        /\ created' = IF client # osc_client THEN created + 1 ELSE created
        /\ wire' = Append(wire, [client |-> client, address |-> address,
                                 value |-> value, delivered |-> delivered])
        /\ result' = [kind |-> "sent",
                      body |-> [status |-> "sent", address |-> address, value |-> value]]

\* _send_osc(address, value): get the client, hand it one message, return the
\* confirmation.  send_message either returns or raises a local socket
\* error (delivered = FALSE), and then nothing is returned.
_send_osc(address, value) ==
    \E delivered \in BOOLEAN :
        LET client == _get_client IN
        /\ osc_client' = client
        /\ created' = IF client # osc_client THEN created + 1 ELSE created
        /\ wire' = Append(wire, [client |-> client, address |-> address,
                                 value |-> value, delivered |-> delivered])
        /\ result' = IF delivered
                     THEN [kind |-> "sent",
                           body |-> [status |-> "sent", address |-> address, value |-> value]]
                     ELSE [kind |-> "transport_error", body |-> "OSError"]

----------------------------------------------------------------------------
\* The caller

\* Scope strings the caller tries: every key, keys in other case and with
\* surrounding whitespace, and strings that are no key; the keys alone when
\* the caller goes through the keys.
Scopes ==
    IF workload = "grid"
    THEN {macro, meso, micro, freq, amp, res,
          <<"M", "A", "C", "R", "O">>, <<" ", "M", "e", "s", "o", " ">>,
          <<"m", "i", "c", "r", "o", "\t">>, <<"F", "r", "e", "q">>,
          <<"\t", "R", "E", "S", " ">>,
          <<"g", "i", "a", "n", "t">>, <<"m", "a", "c", " ", "r", "o">>, <<>>}
    ELSE IF workload = "keys"
         THEN {macro, meso, micro, freq, amp, res}
         ELSE {<<" ", "M", "e", "s", "o", " ">>, freq}

\* Float arguments the caller tries around the points P: each point and its
\* two neighbours one hundredth away; the least point alone when the caller
\* goes through the keys.
Floats(P) ==
    IF workload = "grid"
    THEN UNION {{p - 1, p, p + 1} : p \in P}
    ELSE IF workload = "keys"
         THEN {CHOOSE p \in P : \A q \in P : p <= q}
         ELSE {CHOOSE p \in P : \A q \in P : p <= q} \cup {(CHOOSE p \in P : \A q \in P : q <= p) + 1}

Cubes == 0..4

RawAddresses == {"/polynodes/DryWet", "/polynodes/unlisted", "no-slash", ""}

NoCall == [op |-> "", key |-> <<>>, cube |-> 0, value |-> 0, address |-> ""]

NoResult == [kind |-> "none", body |-> ""]

\* The threads that run tool calls when calls run concurrently.
Threads == 1..NumThreads

\* The locals of a call: its arguments, the address and value it passes to
\* _send_osc, the object line 33 constructs, _send_osc's client, its outcome.
NoFrame ==
    [call |-> NoCall, address |-> "", value |-> 0, made |-> None, client |-> None,
     result |-> NoResult]

\* The caller may make another call.
Calling == ncalls < (IF workload = "sequence" THEN MaxSeqCalls ELSE MaxCalls)

\* A tool call starts: the call is recorded and counted.
Enter(c) ==
    /\ call' = c
    /\ ncalls' = ncalls + 1
    /\ workload' = workload
    /\ UNCHANGED <<pc, frame>>

\* The arguments passed validation; n addresses are resolved on the way to _send_osc.
Accept(c, n) ==
    /\ Enter(c)
    /\ accepted' = accepted + 1
    /\ lookups' = lookups + n


\* Validation that fails only after the tool has opened the client.
ValidationError_after_connect(c) ==
    /\ Enter(c)
    /\ result' = [kind |-> "rejected", body |-> "ValidationError"]
    /\ osc_client' = _get_client
    /\ created' = IF osc_client = None THEN created + 1 ELSE created
    /\ UNCHANGED <<wire, lookups, accepted>>

\* The framework's argument validation raises before the tool body runs.
ValidationError(c) ==
    /\ Enter(c)
    /\ result' = [kind |-> "rejected", body |-> "ValidationError"]
    /\ UNCHANGED <<osc_client, created, wire, lookups, accepted>>


----------------------------------------------------------------------------
\* Input models

\* validate_level without the lower(): only exact lower-case keys pass.
validate_level_nolower(v) ==
    LET w == strip(v) IN
    IF w \notin {macro, meso, micro} THEN ValueError ELSE w

\* validate_level: the same validator is repeated in every model with a level.
validate_level(v) ==
    LET w == strip(lower(v)) IN
    IF w \notin {macro, meso, micro} THEN ValueError ELSE w

validate_param(v) ==
    LET w == strip(lower(v)) IN
    IF w \notin {freq, amp, res} THEN ValueError ELSE w

\* PlayStopInput that turns the state into a boolean 0.0 or 1.0.
PlayStopInput_bool(state) ==
    [valid |-> state >= 0 /\ state <= 100,
     state |-> IF state >= 50 THEN 100 ELSE 0]

PlayStopInput(state) ==
    [valid |-> state >= 0 /\ state <= 100,
     state |-> state]

PresetSlotInput(slot) ==
    [valid |-> slot >= 100 /\ slot <= 1000,
     slot |-> slot]

\* GainInput with the upper bound exclusive (lt where the code has le).
GainInput_lt(level, value) ==
    LET v == validate_level(str_strip_whitespace(level)) IN
    [valid |-> v # ValueError /\ value >= -8000 /\ value < 2000,
     level |-> v, value |-> value]

GainInput(level, value) ==
    LET v == validate_level(str_strip_whitespace(level)) IN
    [valid |-> v # ValueError /\ value >= -8000 /\ value <= 2000,
     level |-> v, value |-> value]

DryWetInput(value) ==
    [valid |-> value >= 0 /\ value <= 100,
     value |-> value]

EnvelopeTimeInput(level, value) ==
    LET v == validate_level(str_strip_whitespace(level)) IN
    [valid |-> v # ValueError /\ value >= 1 /\ value <= 50,
     level |-> v, value |-> value]

PlaybackRateInput(level, value) ==
    LET v == validate_level(str_strip_whitespace(level)) IN
    [valid |-> v # ValueError,
     level |-> v, value |-> value]

PlaybackRateMRInput(level, value) ==
    LET v == validate_level(str_strip_whitespace(level)) IN
    [valid |-> v # ValueError /\ value >= 0 /\ value <= 75,
     level |-> v, value |-> value]

SwitchInput(state) ==
    [valid |-> state >= 0 /\ state <= 100,
     state |-> state]

GranularDurationInput(value) ==
    [valid |-> value >= 1000 /\ value <= 100000,
     value |-> value]

GranularDurationMRInput(value) ==
    [valid |-> value >= 0 /\ value <= 75,
     value |-> value]

FilterInput(level, value) ==
    LET v == validate_level(str_strip_whitespace(level)) IN
    [valid |-> v # ValueError /\ value >= 8000 /\ value <= 800000,
     level |-> v, value |-> value]

FilterMRInput(level, value) ==
    LET v == validate_level(str_strip_whitespace(level)) IN
    [valid |-> v # ValueError /\ value >= 0 /\ value <= 75,
     level |-> v, value |-> value]

FilterSwitchInput(level, state) ==
    LET v == validate_level(str_strip_whitespace(level)) IN
    [valid |-> v # ValueError /\ state >= 0 /\ state <= 100,
     level |-> v, state |-> state]

CombInput(level, value) ==
    LET v == validate_level(str_strip_whitespace(level)) IN
    [valid |-> v # ValueError,
     level |-> v, value |-> value]

CombMRInput(level, value) ==
    LET v == validate_level(str_strip_whitespace(level)) IN
    [valid |-> v # ValueError /\ value >= 0 /\ value <= 75,
     level |-> v, value |-> value]

CombSwitchInput(level, state) ==
    LET v == validate_level(str_strip_whitespace(level)) IN
    [valid |-> v # ValueError /\ state >= 0 /\ state <= 100,
     level |-> v, state |-> state]

ForceInput(level, value) ==
    LET v == validate_level(str_strip_whitespace(level)) IN
    [valid |-> v # ValueError /\ value >= 0 /\ value <= 100,
     level |-> v, value |-> value]

RingModInput(level, value) ==
    LET v == validate_level(str_strip_whitespace(level)) IN
    [valid |-> v # ValueError /\ value >= 100 /\ value <= 300,
     level |-> v, value |-> value]

CubeReturnInput(level, value) ==
    LET v == validate_level(str_strip_whitespace(level)) IN
    [valid |-> v # ValueError /\ value >= 100 /\ value <= 8000,
     level |-> v, value |-> value]

GainSoloInput(level, state) ==
    LET v == validate_level(str_strip_whitespace(level)) IN
    [valid |-> v # ValueError /\ state >= 0 /\ state <= 100,
     level |-> v, state |-> state]

CrushBitInput(value) ==
    [valid |-> value >= 0 /\ value <= 100,
     value |-> value]

CrushRangeInput(value) ==
    [valid |-> value >= 0 /\ value <= 500,
     value |-> value]

ResonatorFreqDistInput(value) ==
    [valid |-> value >= 100 /\ value <= 300,
     value |-> value]

ResonatorBalanceInput(value) ==
    [valid |-> value >= 0 /\ value <= 50,
     value |-> value]

IsomorphModInput(param, value) ==
    LET v == validate_param(str_strip_whitespace(param)) IN
    [valid |-> v # ValueError /\ value >= 0 /\ value <= 200,
     param |-> v, value |-> value]

IsomorphBPCenterInput(value) ==
    [valid |-> value >= 0 /\ value <= 500000,
     value |-> value]

CameraZoomInput(value) ==
    [valid |-> TRUE,
     value |-> value]

CameraRotateInput(value) ==
    [valid |-> TRUE,
     value |-> value]

BPMInput(value) ==
    [valid |-> value >= 1000 /\ value <= 30000,
     value |-> value]

----------------------------------------------------------------------------
\* Tools

polynodes_play_stop ==
    /\ Calling
    /\ \E state \in Floats({0, 100}) :
           LET params == PlayStopInput(state)
               c == [op |-> "polynodes_play_stop", key |-> <<>>, cube |-> 0, value |-> state, address |-> ""]
           IN  IF params.valid
               THEN Accept(c, 0) /\ _send_osc("/polynodes/playstartstop", params.state)
               ELSE ValidationError(c)

polynodes_preset_slot ==
    /\ Calling
    /\ \E slot \in Floats({100, 1000}) :
           LET params == PresetSlotInput(slot)
               c == [op |-> "polynodes_preset_slot", key |-> <<>>, cube |-> 0, value |-> slot, address |-> ""]
           IN  IF params.valid
               THEN Accept(c, 0) /\ _send_osc("/polynodes/presetslot", params.slot)
               ELSE ValidationError(c)

addr_map_set_gain ==
    (macro :> "/polynodes/MacroGain") @@ (meso :> "/polynodes/MesoGain") @@ (micro :> "/polynodes/MicroGain")

polynodes_set_gain ==
    /\ Calling
    /\ \E level \in Scopes, value \in Floats({-8000, 2000}) :
           LET params == GainInput(level, value)
               c == [op |-> "polynodes_set_gain", key |-> level, cube |-> 0, value |-> value, address |-> ""]
           IN  IF params.valid
               THEN Accept(c, 1) /\ _send_osc(addr_map_set_gain[params.level], params.value)
               ELSE ValidationError(c)

polynodes_set_dry_wet ==
    /\ Calling
    /\ \E value \in Floats({0, 100}) :
           LET params == DryWetInput(value)
               c == [op |-> "polynodes_set_dry_wet", key |-> <<>>, cube |-> 0, value |-> value, address |-> ""]
           IN  IF params.valid
               THEN Accept(c, 0) /\ _send_osc("/polynodes/DryWet", params.value)
               ELSE ValidationError(c)

addr_map_gain_solo ==
    (macro :> "/polynodes/MacroGainsolo") @@ (meso :> "/polynodes/MesoGainsolo") @@ (micro :> "/polynodes/MicroGainsolo")

polynodes_gain_solo ==
    /\ Calling
    /\ \E level \in Scopes, state \in Floats({0, 100}) :
           LET params == GainSoloInput(level, state)
               c == [op |-> "polynodes_gain_solo", key |-> level, cube |-> 0, value |-> state, address |-> ""]
           IN  IF params.valid
               THEN Accept(c, 1) /\ _send_osc(addr_map_gain_solo[params.level], params.state)
               ELSE ValidationError(c)

addr_map_set_envelope_time ==
    (macro :> "/polynodes/MacroEnvtime") @@ (meso :> "/polynodes/MesoEnvtime") @@ (micro :> "/polynodes/MicroEnvtime")

polynodes_set_envelope_time ==
    /\ Calling
    /\ \E level \in Scopes, value \in Floats({1, 50}) :
           LET params == EnvelopeTimeInput(level, value)
               c == [op |-> "polynodes_set_envelope_time", key |-> level, cube |-> 0, value |-> value, address |-> ""]
           IN  IF params.valid
               THEN Accept(c, 1) /\ _send_osc(addr_map_set_envelope_time[params.level], params.value)
               ELSE ValidationError(c)

addr_map_set_playback_rate ==
    (macro :> "/polynodes/pbrmacro") @@ (meso :> "/polynodes/pbrmeso") @@ (micro :> "/polynodes/pbrmicro")

polynodes_set_playback_rate ==
    /\ Calling
    /\ \E level \in Scopes, value \in Floats({30, 1000, 2000, 3000}) :
           LET params == PlaybackRateInput(level, value)
               c == [op |-> "polynodes_set_playback_rate", key |-> level, cube |-> 0, value |-> value, address |-> ""]
           IN  IF params.valid
               THEN Accept(c, 1) /\ _send_osc(addr_map_set_playback_rate[params.level], params.value)
               ELSE ValidationError(c)

addr_map_set_playback_rate_mod_range ==
    (macro :> "/polynodes/pbrmacroMR") @@ (meso :> "/polynodes/pbrmesoMR") @@ (micro :> "/polynodes/pbrmicroMR")

polynodes_set_playback_rate_mod_range ==
    /\ Calling
    /\ \E level \in Scopes, value \in Floats({0, 75}) :
           LET params == PlaybackRateMRInput(level, value)
               c == [op |-> "polynodes_set_playback_rate_mod_range", key |-> level, cube |-> 0, value |-> value, address |-> ""]
           IN  IF params.valid
               THEN Accept(c, 1) /\ _send_osc(addr_map_set_playback_rate_mod_range[params.level], params.value)
               ELSE ValidationError(c)

polynodes_granular_switch ==
    /\ Calling
    /\ \E state \in Floats({0, 100}) :
           LET params == SwitchInput(state)
               c == [op |-> "polynodes_granular_switch", key |-> <<>>, cube |-> 0, value |-> state, address |-> ""]
           IN  IF params.valid
               THEN Accept(c, 0) /\ _send_osc("/polynodes/granusw", params.state)
               ELSE ValidationError(c)

polynodes_granular_duration ==
    /\ Calling
    /\ \E value \in Floats({1000, 100000}) :
           LET params == GranularDurationInput(value)
               c == [op |-> "polynodes_granular_duration", key |-> <<>>, cube |-> 0, value |-> value, address |-> ""]
           IN  IF params.valid
               THEN Accept(c, 0) /\ _send_osc("/polynodes/granuDur", params.value)
               ELSE ValidationError(c)

polynodes_granular_duration_mod_range ==
    /\ Calling
    /\ \E value \in Floats({0, 75}) :
           LET params == GranularDurationMRInput(value)
               c == [op |-> "polynodes_granular_duration_mod_range", key |-> <<>>, cube |-> 0, value |-> value, address |-> ""]
           IN  IF params.valid
               THEN Accept(c, 0) /\ _send_osc("/polynodes/granuDurMR", params.value)
               ELSE ValidationError(c)

addr_map_filter_switch ==
    (macro :> "/polynodes/filtmacrosw") @@ (meso :> "/polynodes/filtmesosw") @@ (micro :> "/polynodes/filtmicrosw")

polynodes_filter_switch ==
    /\ Calling
    /\ \E level \in Scopes, state \in Floats({0, 100}) :
           LET params == FilterSwitchInput(level, state)
               c == [op |-> "polynodes_filter_switch", key |-> level, cube |-> 0, value |-> state, address |-> ""]
           IN  IF params.valid
               THEN Accept(c, 1) /\ _send_osc(addr_map_filter_switch[params.level], params.state)
               ELSE ValidationError(c)

addr_map_set_filter_freq ==
    (macro :> "/polynodes/filtmacro") @@ (meso :> "/polynodes/filtmeso") @@ (micro :> "/polynodes/filtmicro")

polynodes_set_filter_freq ==
    /\ Calling
    /\ \E level \in Scopes, value \in Floats({8000, 800000}) :
           LET params == FilterInput(level, value)
               c == [op |-> "polynodes_set_filter_freq", key |-> level, cube |-> 0, value |-> value, address |-> ""]
           IN  IF params.valid
               THEN Accept(c, 1) /\ _send_osc(addr_map_set_filter_freq[params.level], params.value)
               ELSE ValidationError(c)

addr_map_set_filter_mod_range ==
    (macro :> "/polynodes/filtmacroMR") @@ (meso :> "/polynodes/filtmesoMR") @@ (micro :> "/polynodes/filtmicroMR")

polynodes_set_filter_mod_range ==
    /\ Calling
    /\ \E level \in Scopes, value \in Floats({0, 75}) :
           LET params == FilterMRInput(level, value)
               c == [op |-> "polynodes_set_filter_mod_range", key |-> level, cube |-> 0, value |-> value, address |-> ""]
           IN  IF params.valid
               THEN Accept(c, 1) /\ _send_osc(addr_map_set_filter_mod_range[params.level], params.value)
               ELSE ValidationError(c)

addr_map_comb_switch ==
    (macro :> "/polynodes/combmacrosw") @@ (meso :> "/polynodes/combmesosw") @@ (micro :> "/polynodes/combmicrosw")

polynodes_comb_switch ==
    /\ Calling
    /\ \E level \in Scopes, state \in Floats({0, 100}) :
           LET params == CombSwitchInput(level, state)
               c == [op |-> "polynodes_comb_switch", key |-> level, cube |-> 0, value |-> state, address |-> ""]
           IN  IF params.valid
               THEN Accept(c, 1) /\ _send_osc(addr_map_comb_switch[params.level], params.state)
               ELSE ValidationError(c)

addr_map_set_comb_delay ==
    (macro :> "/polynodes/combmacro") @@ (meso :> "/polynodes/combmeso") @@ (micro :> "/polynodes/combmicro")

polynodes_set_comb_delay ==
    /\ Calling
    /\ \E level \in Scopes, value \in Floats({1000, 30000, 100000, 300000}) :
           LET params == CombInput(level, value)
               c == [op |-> "polynodes_set_comb_delay", key |-> level, cube |-> 0, value |-> value, address |-> ""]
           IN  IF params.valid
               THEN Accept(c, 1) /\ _send_osc(addr_map_set_comb_delay[params.level], params.value)
               ELSE ValidationError(c)

addr_map_set_comb_mod_range ==
    (macro :> "/polynodes/combmacroMR") @@ (meso :> "/polynodes/combmesoMR") @@ (micro :> "/polynodes/combmicroMR")

polynodes_set_comb_mod_range ==
    /\ Calling
    /\ \E level \in Scopes, value \in Floats({0, 75}) :
           LET params == CombMRInput(level, value)
               c == [op |-> "polynodes_set_comb_mod_range", key |-> level, cube |-> 0, value |-> value, address |-> ""]
           IN  IF params.valid
               THEN Accept(c, 1) /\ _send_osc(addr_map_set_comb_mod_range[params.level], params.value)
               ELSE ValidationError(c)

polynodes_blackhole_switch ==
    /\ Calling
    /\ \E state \in Floats({0, 100}) :
           LET params == SwitchInput(state)
               c == [op |-> "polynodes_blackhole_switch", key |-> <<>>, cube |-> 0, value |-> state, address |-> ""]
           IN  IF params.valid
               THEN Accept(c, 0) /\ _send_osc("/polynodes/BHsw", params.state)
               ELSE ValidationError(c)

addr_map_blackhole_force ==
    (macro :> "/polynodes/BHmacroforce") @@ (meso :> "/polynodes/BHmesoforce") @@ (micro :> "/polynodes/BHmicroforce")

polynodes_blackhole_force ==
    /\ Calling
    /\ \E level \in Scopes, value \in Floats({0, 100}) :
           LET params == ForceInput(level, value)
               c == [op |-> "polynodes_blackhole_force", key |-> level, cube |-> 0, value |-> value, address |-> ""]
           IN  IF params.valid
               THEN Accept(c, 1) /\ _send_osc(addr_map_blackhole_force[params.level], params.value)
               ELSE ValidationError(c)

polynodes_whitehole_switch ==
    /\ Calling
    /\ \E state \in Floats({0, 100}) :
           LET params == SwitchInput(state)
               c == [op |-> "polynodes_whitehole_switch", key |-> <<>>, cube |-> 0, value |-> state, address |-> ""]
           IN  IF params.valid
               THEN Accept(c, 0) /\ _send_osc("/polynodes/WHsw", params.state)
               ELSE ValidationError(c)

\* whitehole_force with the address map copied from blackhole_force and not renamed.
addr_map_whitehole_force_copied ==
    (macro :> "/polynodes/BHmacroforce") @@ (meso :> "/polynodes/BHmesoforce") @@ (micro :> "/polynodes/BHmicroforce")

addr_map_whitehole_force ==
    (macro :> "/polynodes/WHmacroforce") @@ (meso :> "/polynodes/WHmesoforce") @@ (micro :> "/polynodes/WHmicroforce")

polynodes_whitehole_force ==
    /\ Calling
    /\ \E level \in Scopes, value \in Floats({0, 100}) :
           LET params == ForceInput(level, value)
               c == [op |-> "polynodes_whitehole_force", key |-> level, cube |-> 0, value |-> value, address |-> ""]
           IN  IF params.valid
               THEN Accept(c, 1) /\ _send_osc(addr_map_whitehole_force[params.level], params.value)
               ELSE ValidationError(c)

polynodes_ringmod_switch ==
    /\ Calling
    /\ \E state \in Floats({0, 100}) :
           LET params == SwitchInput(state)
               c == [op |-> "polynodes_ringmod_switch", key |-> <<>>, cube |-> 0, value |-> state, address |-> ""]
           IN  IF params.valid
               THEN Accept(c, 0) /\ _send_osc("/polynodes/RMsw", params.state)
               ELSE ValidationError(c)

addr_map_ringmod_freq ==
    (macro :> "/polynodes/RMmacro") @@ (meso :> "/polynodes/RMmeso") @@ (micro :> "/polynodes/RMmicro")

polynodes_ringmod_freq ==
    /\ Calling
    /\ \E level \in Scopes, value \in Floats({100, 300}) :
           LET params == RingModInput(level, value)
               c == [op |-> "polynodes_ringmod_freq", key |-> level, cube |-> 0, value |-> value, address |-> ""]
           IN  IF params.valid
               THEN Accept(c, 1) /\ _send_osc(addr_map_ringmod_freq[params.level], params.value)
               ELSE ValidationError(c)

polynodes_crush_switch ==
    /\ Calling
    /\ \E state \in Floats({0, 100}) :
           LET params == SwitchInput(state)
               c == [op |-> "polynodes_crush_switch", key |-> <<>>, cube |-> 0, value |-> state, address |-> ""]
           IN  IF params.valid
               THEN Accept(c, 0) /\ _send_osc("/polynodes/CRSsw", params.state)
               ELSE ValidationError(c)

polynodes_crush_bit_level ==
    /\ Calling
    /\ \E value \in Floats({0, 100}) :
           LET params == CrushBitInput(value)
               c == [op |-> "polynodes_crush_bit_level", key |-> <<>>, cube |-> 0, value |-> value, address |-> ""]
           IN  IF params.valid
               THEN Accept(c, 0) /\ _send_osc("/polynodes/CRSbitLvl", params.value)
               ELSE ValidationError(c)

polynodes_crush_range ==
    /\ Calling
    /\ \E value \in Floats({0, 500}) :
           LET params == CrushRangeInput(value)
               c == [op |-> "polynodes_crush_range", key |-> <<>>, cube |-> 0, value |-> value, address |-> ""]
           IN  IF params.valid
               THEN Accept(c, 0) /\ _send_osc("/polynodes/CRSrange", params.value)
               ELSE ValidationError(c)

polynodes_resonator_switch ==
    /\ Calling
    /\ \E state \in Floats({0, 100}) :
           LET params == SwitchInput(state)
               c == [op |-> "polynodes_resonator_switch", key |-> <<>>, cube |-> 0, value |-> state, address |-> ""]
           IN  IF params.valid
               THEN Accept(c, 0) /\ _send_osc("/polynodes/ResoSw", params.state)
               ELSE ValidationError(c)

polynodes_resonator_freq_dist ==
    /\ Calling
    /\ \E value \in Floats({100, 300}) :
           LET params == ResonatorFreqDistInput(value)
               c == [op |-> "polynodes_resonator_freq_dist", key |-> <<>>, cube |-> 0, value |-> value, address |-> ""]
           IN  IF params.valid
               THEN Accept(c, 0) /\ _send_osc("/polynodes/ResoFreqdist", params.value)
               ELSE ValidationError(c)

polynodes_resonator_balance ==
    /\ Calling
    /\ \E value \in Floats({0, 50}) :
           LET params == ResonatorBalanceInput(value)
               c == [op |-> "polynodes_resonator_balance", key |-> <<>>, cube |-> 0, value |-> value, address |-> ""]
           IN  IF params.valid
               THEN Accept(c, 0) /\ _send_osc("/polynodes/ResoBalance", params.value)
               ELSE ValidationError(c)


\* The cuboid address built from a zero-based index.
cuboid_address_zero_based(cube) == "/polynodes/C" \o ToString(cube - 1) \o "sw"

\* f"/polynodes/C{cube}sw"
cuboid_address(cube) == "/polynodes/C" \o ToString(cube) \o "sw"


\* cuboid_switch whose cube has a lower bound only.
polynodes_cuboid_switch_unbounded ==
    /\ Calling
    /\ \E cube \in Cubes, state \in Floats({0, 100}) :
           LET c == [op |-> "polynodes_cuboid_switch", key |-> <<>>, cube |-> cube, value |-> state, address |-> ""]
           IN  IF cube >= 1 /\ state >= 0 /\ state <= 100
               THEN Accept(c, 1) /\ _send_osc(cuboid_address(cube), state)
               ELSE ValidationError(c)

polynodes_cuboid_switch ==
    /\ Calling
    /\ \E cube \in Cubes, state \in Floats({0, 100}) :
           LET c == [op |-> "polynodes_cuboid_switch", key |-> <<>>, cube |-> cube, value |-> state, address |-> ""]
           IN  IF cube >= 1 /\ cube <= 3 /\ state >= 0 /\ state <= 100
               THEN Accept(c, 1) /\ _send_osc(cuboid_address(cube), state)
               ELSE ValidationError(c)

addr_map_cuboid_return_level ==
    (macro :> "/polynodes/MacroreturnLvl") @@ (meso :> "/polynodes/MesoreturnLvl") @@ (micro :> "/polynodes/MicroreturnLvl")

polynodes_cuboid_return_level ==
    /\ Calling
    /\ \E level \in Scopes, value \in Floats({100, 8000}) :
           LET params == CubeReturnInput(level, value)
               c == [op |-> "polynodes_cuboid_return_level", key |-> level, cube |-> 0, value |-> value, address |-> ""]
           IN  IF params.valid
               THEN Accept(c, 1) /\ _send_osc(addr_map_cuboid_return_level[params.level], params.value)
               ELSE ValidationError(c)

polynodes_isomorph_switch ==
    /\ Calling
    /\ \E state \in Floats({0, 100}) :
           LET params == SwitchInput(state)
               c == [op |-> "polynodes_isomorph_switch", key |-> <<>>, cube |-> 0, value |-> state, address |-> ""]
           IN  IF params.valid
               THEN Accept(c, 0) /\ _send_osc("/polynodes/isomorphsw", params.state)
               ELSE ValidationError(c)

addr_map_isomorph_mod_switch ==
    (freq :> "/polynodes/isomfreqsw") @@ (amp :> "/polynodes/isomampsw") @@ (res :> "/polynodes/isomressw")

\* isomorph_mod_switch falling back to the freq address for an unknown param
\* (addr_map.get(param, default)) instead of returning the error.
polynodes_isomorph_mod_switch_default ==
    /\ Calling
    /\ \E param \in Scopes, state \in Floats({0, 100}) :
           LET c == [op |-> "polynodes_isomorph_mod_switch", key |-> param, cube |-> 0, value |-> state, address |-> ""]
               p == strip(lower(param))
           IN  IF ~(state >= 0 /\ state <= 100)
               THEN ValidationError(c)
               ELSE /\ Accept(c, 1)
                    /\ _send_osc(IF p \in DOMAIN addr_map_isomorph_mod_switch
                                 THEN addr_map_isomorph_mod_switch[p]
                                 ELSE addr_map_isomorph_mod_switch[freq], state)

\* isomorph_mod_switch that raises for an unknown param, as the tools with a
\* validated level do.
polynodes_isomorph_mod_switch_raising ==
    /\ Calling
    /\ \E param \in Scopes, state \in Floats({0, 100}) :
           LET c == [op |-> "polynodes_isomorph_mod_switch", key |-> param, cube |-> 0, value |-> state, address |-> ""]
               p == strip(lower(param))
           IN  IF ~(state >= 0 /\ state <= 100) \/ p \notin DOMAIN addr_map_isomorph_mod_switch
               THEN ValidationError(c)
               ELSE Accept(c, 1) /\ _send_osc(addr_map_isomorph_mod_switch[p], state)

\* state is checked by the framework before the body runs; param is checked
\* in the body, which returns an error payload instead of raising.
polynodes_isomorph_mod_switch ==
    /\ Calling
    /\ \E param \in Scopes, state \in Floats({0, 100}) :
           LET c == [op |-> "polynodes_isomorph_mod_switch", key |-> param, cube |-> 0, value |-> state, address |-> ""]
               p == strip(lower(param))
           IN  IF ~(state >= 0 /\ state <= 100)
               THEN ValidationError(c)
               ELSE IF p \notin DOMAIN addr_map_isomorph_mod_switch
                    THEN /\ Enter(c)
                         /\ result' = [kind |-> "error",
                                       body |-> [error |-> "param must be 'freq', 'amp', or 'res'"]]
                         /\ UNCHANGED <<osc_client, created, wire, lookups, accepted>>
                    ELSE Accept(c, 1) /\ _send_osc(addr_map_isomorph_mod_switch[p], state)

addr_map_isomorph_mod_depth ==
    (freq :> "/polynodes/isomfreqmodr") @@ (amp :> "/polynodes/isomampmodr") @@ (res :> "/polynodes/isomresmodr")

polynodes_isomorph_mod_depth ==
    /\ Calling
    /\ \E param \in Scopes, value \in Floats({0, 200}) :
           LET params == IsomorphModInput(param, value)
               c == [op |-> "polynodes_isomorph_mod_depth", key |-> param, cube |-> 0, value |-> value, address |-> ""]
           IN  IF params.valid
               THEN Accept(c, 1) /\ _send_osc(addr_map_isomorph_mod_depth[params.param], params.value)
               ELSE ValidationError(c)

polynodes_isomorph_bp_center ==
    /\ Calling
    /\ \E value \in Floats({0, 500000}) :
           LET params == IsomorphBPCenterInput(value)
               c == [op |-> "polynodes_isomorph_bp_center", key |-> <<>>, cube |-> 0, value |-> value, address |-> ""]
           IN  IF params.valid
               THEN Accept(c, 0) /\ _send_osc("/polynodes/isombpcent", params.value)
               ELSE ValidationError(c)

polynodes_navigation_random_trigger ==
    /\ Calling
    /\ \E state \in Floats({0, 100}) :
           LET params == SwitchInput(state)
               c == [op |-> "polynodes_navigation_random_trigger", key |-> <<>>, cube |-> 0, value |-> state, address |-> ""]
           IN  IF params.valid
               THEN Accept(c, 0) /\ _send_osc("/polynodes/navigrndtrig", params.state)
               ELSE ValidationError(c)

polynodes_rearrange_trigger ==
    /\ Calling
    /\ \E state \in Floats({0, 100}) :
           LET params == SwitchInput(state)
               c == [op |-> "polynodes_rearrange_trigger", key |-> <<>>, cube |-> 0, value |-> state, address |-> ""]
           IN  IF params.valid
               THEN Accept(c, 0) /\ _send_osc("/polynodes/rearrtrig", params.state)
               ELSE ValidationError(c)

polynodes_poly_gates_switch ==
    /\ Calling
    /\ \E state \in Floats({0, 100}) :
           LET params == SwitchInput(state)
               c == [op |-> "polynodes_poly_gates_switch", key |-> <<>>, cube |-> 0, value |-> state, address |-> ""]
           IN  IF params.valid
               THEN Accept(c, 0) /\ _send_osc("/polynodes/polygatessw", params.state)
               ELSE ValidationError(c)

polynodes_tuning_pb_switch ==
    /\ Calling
    /\ \E state \in Floats({0, 100}) :
           LET params == SwitchInput(state)
               c == [op |-> "polynodes_tuning_pb_switch", key |-> <<>>, cube |-> 0, value |-> state, address |-> ""]
           IN  IF params.valid
               THEN Accept(c, 0) /\ _send_osc("/polynodes/tuningpbsw", params.state)
               ELSE ValidationError(c)

polynodes_tuning_res_switch ==
    /\ Calling
    /\ \E state \in Floats({0, 100}) :
           LET params == SwitchInput(state)
               c == [op |-> "polynodes_tuning_res_switch", key |-> <<>>, cube |-> 0, value |-> state, address |-> ""]
           IN  IF params.valid
               THEN Accept(c, 0) /\ _send_osc("/polynodes/tuningressw", params.state)
               ELSE ValidationError(c)

polynodes_camera_zoom ==
    /\ Calling
    /\ \E value \in Floats({0}) :
           LET params == CameraZoomInput(value)
               c == [op |-> "polynodes_camera_zoom", key |-> <<>>, cube |-> 0, value |-> value, address |-> ""]
           IN  IF params.valid
               THEN Accept(c, 0) /\ _send_osc("/polynodes/camzoom", params.value)
               ELSE ValidationError(c)

polynodes_camera_rotate ==
    /\ Calling
    /\ \E value \in Floats({0}) :
           LET params == CameraRotateInput(value)
               c == [op |-> "polynodes_camera_rotate", key |-> <<>>, cube |-> 0, value |-> value, address |-> ""]
           IN  IF params.valid
               THEN Accept(c, 0) /\ _send_osc("/polynodes/camrotate", params.value)
               ELSE ValidationError(c)

polynodes_set_bpm ==
    /\ Calling
    /\ \E value \in Floats({1000, 30000}) :
           LET params == BPMInput(value)
               c == [op |-> "polynodes_set_bpm", key |-> <<>>, cube |-> 0, value |-> value, address |-> ""]
           IN  IF params.valid
               THEN Accept(c, 0) /\ _send_osc("/polynodes/seqbpm", params.value)
               ELSE ValidationError(c)

addresses ==
    ("transport" :>
        (("/polynodes/playstartstop" :> "Play/Stop (0.0 or 1.0)") @@
         ("/polynodes/presetslot" :> "Preset Slot (1-10)") @@
         ("/polynodes/seqbpm" :> "BPM (10-300)"))) @@
    ("gain" :>
        (("/polynodes/MacroGain" :> "Macro Gain dB (-80 to 20)") @@
         ("/polynodes/MesoGain" :> "Meso Gain dB (-80 to 20)") @@
         ("/polynodes/MicroGain" :> "Micro Gain dB (-80 to 20)") @@
         ("/polynodes/DryWet" :> "Dry/Wet (0.0-1.0)") @@
         ("/polynodes/MacroGainsolo" :> "Macro Solo (0/1)") @@
         ("/polynodes/MesoGainsolo" :> "Meso Solo (0/1)") @@
         ("/polynodes/MicroGainsolo" :> "Micro Solo (0/1)"))) @@
    ("envelope" :>
        (("/polynodes/MacroEnvtime" :> "Macro Env Time (0.01-0.5)") @@
         ("/polynodes/MesoEnvtime" :> "Meso Env Time (0.01-0.5)") @@
         ("/polynodes/MicroEnvtime" :> "Micro Env Time (0.01-0.5)"))) @@
    ("playback_rate" :>
        (("/polynodes/pbrmacro" :> "Macro PBR (0.3-10)") @@
         ("/polynodes/pbrmeso" :> "Meso PBR (0.3-20)") @@
         ("/polynodes/pbrmicro" :> "Micro PBR (0.3-30)") @@
         ("/polynodes/pbrmacroMR" :> "Macro PBR ModRange (0-0.75)") @@
         ("/polynodes/pbrmesoMR" :> "Meso PBR ModRange (0-0.75)") @@
         ("/polynodes/pbrmicroMR" :> "Micro PBR ModRange (0-0.75)"))) @@
    ("granulator" :>
        (("/polynodes/granusw" :> "Granulator Switch (0/1)") @@
         ("/polynodes/granuDur" :> "Duration (10-1000)") @@
         ("/polynodes/granuDurMR" :> "Duration ModRange (0-0.75)"))) @@
    ("bandpass_filter" :>
        (("/polynodes/filtmacrosw" :> "Macro Filter Switch (0/1)") @@
         ("/polynodes/filtmesosw" :> "Meso Filter Switch (0/1)") @@
         ("/polynodes/filtmicrosw" :> "Micro Filter Switch (0/1)") @@
         ("/polynodes/filtmacro" :> "Macro Freq (80-8000)") @@
         ("/polynodes/filtmeso" :> "Meso Freq (80-8000)") @@
         ("/polynodes/filtmicro" :> "Micro Freq (80-8000)") @@
         ("/polynodes/filtmacroMR" :> "Macro Filter ModRange (0-0.75)") @@
         ("/polynodes/filtmesoMR" :> "Meso Filter ModRange (0-0.75)") @@
         ("/polynodes/filtmicroMR" :> "Micro Filter ModRange (0-0.75)"))) @@
    ("comb_filter" :>
        (("/polynodes/combmacrosw" :> "Macro Comb Switch (0/1)") @@
         ("/polynodes/combmesosw" :> "Meso Comb Switch (0/1)") @@
         ("/polynodes/combmicrosw" :> "Micro Comb Switch (0/1)") @@
         ("/polynodes/combmacro" :> "Macro Comb (10-3000)") @@
         ("/polynodes/combmeso" :> "Meso Comb (10-1000)") @@
         ("/polynodes/combmicro" :> "Micro Comb (10-300)") @@
         ("/polynodes/combmacroMR" :> "Macro Comb ModRange (0-0.75)") @@
         ("/polynodes/combmesoMR" :> "Meso Comb ModRange (0-0.75)") @@
         ("/polynodes/combmicroMR" :> "Micro Comb ModRange (0-0.75)"))) @@
    ("blackhole" :>
        (("/polynodes/BHsw" :> "BH Switch (0/1)") @@
         ("/polynodes/BHmacroforce" :> "BH Macro Force (0-1)") @@
         ("/polynodes/BHmesoforce" :> "BH Meso Force (0-1)") @@
         ("/polynodes/BHmicroforce" :> "BH Micro Force (0-1)"))) @@
    ("whitehole" :>
        (("/polynodes/WHsw" :> "WH Switch (0/1)") @@
         ("/polynodes/WHmacroforce" :> "WH Macro Force (0-1)") @@
         ("/polynodes/WHmesoforce" :> "WH Meso Force (0-1)") @@
         ("/polynodes/WHmicroforce" :> "WH Micro Force (0-1)"))) @@
    ("ring_modulator" :>
        (("/polynodes/RMsw" :> "RM Switch (0/1)") @@
         ("/polynodes/RMmacro" :> "RM Macro (1-3)") @@
         ("/polynodes/RMmeso" :> "RM Meso (1-3)") @@
         ("/polynodes/RMmicro" :> "RM Micro (1-3)"))) @@
    ("bitcrusher" :>
        (("/polynodes/CRSsw" :> "Crush Switch (0/1)") @@
         ("/polynodes/CRSbitLvl" :> "Bit Level (0-1)") @@
         ("/polynodes/CRSrange" :> "Range (0-5)"))) @@
    ("resonator" :>
        (("/polynodes/ResoSw" :> "Resonator Switch (0/1)") @@
         ("/polynodes/ResoFreqdist" :> "Freq Distribution (1-3)") @@
         ("/polynodes/ResoBalance" :> "Balance (0-0.5)"))) @@
    ("cuboid_fx" :>
        (("/polynodes/C1sw" :> "Cuboid 1 Switch (0/1)") @@
         ("/polynodes/C2sw" :> "Cuboid 2 Switch (0/1)") @@
         ("/polynodes/C3sw" :> "Cuboid 3 Switch (0/1)") @@
         ("/polynodes/MacroreturnLvl" :> "Macro Return (1-80)") @@
         ("/polynodes/MesoreturnLvl" :> "Meso Return (1-80)") @@
         ("/polynodes/MicroreturnLvl" :> "Micro Return (1-80)"))) @@
    ("isomorph" :>
        (("/polynodes/isomorphsw" :> "IsoMorph Switch (0/1)") @@
         ("/polynodes/isomfreqsw" :> "Freq Mod Switch (0/1)") @@
         ("/polynodes/isomfreqmodr" :> "Freq Mod Depth (0-2)") @@
         ("/polynodes/isomampsw" :> "Amp Mod Switch (0/1)") @@
         ("/polynodes/isomampmodr" :> "Amp Mod Depth (0-2)") @@
         ("/polynodes/isomressw" :> "Res Mod Switch (0/1)") @@
         ("/polynodes/isomresmodr" :> "Res Mod Depth (0-2)") @@
         ("/polynodes/isombpcent" :> "BP Center (0-5000)"))) @@
    ("navigation" :>
        (("/polynodes/navigrndtrig" :> "Nav Random Trigger (0/1)") @@
         ("/polynodes/rearrtrig" :> "Rearrange Trigger (0/1)") @@
         ("/polynodes/polygatessw" :> "Poly Gates Switch (0/1)"))) @@
    ("tuning" :>
        (("/polynodes/tuningpbsw" :> "Tuning PB Switch (0/1)") @@
         ("/polynodes/tuningressw" :> "Tuning Res Switch (0/1)"))) @@
    ("camera" :>
        (("/polynodes/camzoom" :> "Camera Zoom (+/- float)") @@
         ("/polynodes/camrotate" :> "Camera Rotate (radians)")))

\* list_osc_addresses that opens the client before it answers.
polynodes_list_osc_addresses_connecting ==
    /\ Calling
    /\ LET c == [op |-> "polynodes_list_osc_addresses", key |-> <<>>, cube |-> 0, value |-> 0, address |-> ""]
       IN  /\ Enter(c)
           /\ result' = [kind |-> "listing", body |-> addresses]
           /\ osc_client' = _get_client
           /\ created' = IF osc_client = None THEN created + 1 ELSE created
           /\ UNCHANGED <<wire, lookups, accepted>>

polynodes_list_osc_addresses ==
    /\ Calling
    /\ LET c == [op |-> "polynodes_list_osc_addresses", key |-> <<>>, cube |-> 0, value |-> 0, address |-> ""]
       IN  /\ Enter(c)
           /\ result' = [kind |-> "listing", body |-> addresses]
           /\ UNCHANGED <<osc_client, created, wire, lookups, accepted>>

\* send_raw_osc that refuses an address outside the /polynodes/ namespace.
polynodes_send_raw_osc_checked ==
    /\ Calling
    /\ \E address \in RawAddresses, value \in Floats({0}) :
           LET c == [op |-> "polynodes_send_raw_osc", key |-> <<>>, cube |-> 0, value |-> value, address |-> address]
           IN  IF address \in {"/polynodes/DryWet", "/polynodes/unlisted"}
               THEN Accept(c, 0) /\ _send_osc(address, value)
               ELSE ValidationError(c)

polynodes_send_raw_osc ==
    /\ Calling
    /\ \E address \in RawAddresses, value \in Floats({0}) :
           LET c == [op |-> "polynodes_send_raw_osc", key |-> <<>>, cube |-> 0, value |-> value, address |-> address]
           IN  Accept(c, 0) /\ _send_osc(address, value)

----------------------------------------------------------------------------
\* Specifications

Init ==
    /\ osc_client = None
    /\ created = 0
    /\ wire = <<>>
    /\ lookups = 0
    /\ accepted = 0
    /\ ncalls = 0
    /\ call = NoCall
    /\ result = NoResult
    /\ workload = "grid"
    /\ pc = [p \in Threads |-> "idle"]
    /\ frame = [p \in Threads |-> NoFrame]

InitSeq ==
    /\ osc_client = None
    /\ created = 0
    /\ wire = <<>>
    /\ lookups = 0
    /\ accepted = 0
    /\ ncalls = 0
    /\ call = NoCall
    /\ result = NoResult
    /\ workload = "sequence"
    /\ pc = [p \in Threads |-> "idle"]
    /\ frame = [p \in Threads |-> NoFrame]

InitKeys ==
    /\ osc_client = None
    /\ created = 0
    /\ wire = <<>>
    /\ lookups = 0
    /\ accepted = 0
    /\ ncalls = 0
    /\ call = NoCall
    /\ result = NoResult
    /\ workload = "keys"
    /\ pc = [p \in Threads |-> "idle"]
    /\ frame = [p \in Threads |-> NoFrame]

Next ==
    \/ polynodes_play_stop
    \/ polynodes_preset_slot
    \/ polynodes_set_gain
    \/ polynodes_set_dry_wet
    \/ polynodes_gain_solo
    \/ polynodes_set_envelope_time
    \/ polynodes_set_playback_rate
    \/ polynodes_set_playback_rate_mod_range
    \/ polynodes_granular_switch
    \/ polynodes_granular_duration
    \/ polynodes_granular_duration_mod_range
    \/ polynodes_filter_switch
    \/ polynodes_set_filter_freq
    \/ polynodes_set_filter_mod_range
    \/ polynodes_comb_switch
    \/ polynodes_set_comb_delay
    \/ polynodes_set_comb_mod_range
    \/ polynodes_blackhole_switch
    \/ polynodes_blackhole_force
    \/ polynodes_whitehole_switch
    \/ polynodes_whitehole_force
    \/ polynodes_ringmod_switch
    \/ polynodes_ringmod_freq
    \/ polynodes_crush_switch
    \/ polynodes_crush_bit_level
    \/ polynodes_crush_range
    \/ polynodes_resonator_switch
    \/ polynodes_resonator_freq_dist
    \/ polynodes_resonator_balance
    \/ polynodes_cuboid_switch
    \/ polynodes_cuboid_return_level
    \/ polynodes_isomorph_switch
    \/ polynodes_isomorph_mod_switch
    \/ polynodes_isomorph_mod_depth
    \/ polynodes_isomorph_bp_center
    \/ polynodes_navigation_random_trigger
    \/ polynodes_rearrange_trigger
    \/ polynodes_poly_gates_switch
    \/ polynodes_tuning_pb_switch
    \/ polynodes_tuning_res_switch
    \/ polynodes_camera_zoom
    \/ polynodes_camera_rotate
    \/ polynodes_set_bpm
    \/ polynodes_list_osc_addresses
    \/ polynodes_send_raw_osc

\* One call, swept over the whole argument grid.
Spec == Init /\ [][Next]_vars

\* Sequences of calls, over fewer arguments per call.
SpecSeq == InitSeq /\ [][Next]_vars

\* One call, swept over every key of every tool.
SpecKeys == InitKeys /\ [][Next]_vars

----------------------------------------------------------------------------
\* Concurrent calls: each thread runs one tool call, and _get_client and
\* _send_osc are taken statement by statement, since the code holds no lock.

\* The calls the threads make: accepted ones with different addresses and
\* values, a rejected one, one answered with an error payload, the listing.
ThreadCalls ==
    {[op |-> "polynodes_play_stop", key |-> <<>>, cube |-> 0, value |-> 100, address |-> ""],
     [op |-> "polynodes_play_stop", key |-> <<>>, cube |-> 0, value |-> 0, address |-> ""],
     [op |-> "polynodes_play_stop", key |-> <<>>, cube |-> 0, value |-> 101, address |-> ""],
     [op |-> "polynodes_set_gain", key |-> <<" ", "M", "e", "s", "o", " ">>, cube |-> 0,
      value |-> -8000, address |-> ""],
     [op |-> "polynodes_isomorph_mod_switch", key |-> <<"g", "i", "a", "n", "t">>, cube |-> 0,
      value |-> 100, address |-> ""],
     [op |-> "polynodes_list_osc_addresses", key |-> <<>>, cube |-> 0, value |-> 0, address |-> ""]}

\* How a tool leaves its own code: into _send_osc(address, value), by the
\* framework raising, or by returning a payload of its own.
Sending(address, value) ==
    [kind |-> "send", address |-> address, value |-> value, result |-> NoResult]

Raising ==
    [kind |-> "raise", address |-> "", value |-> 0,
     result |-> [kind |-> "rejected", body |-> "ValidationError"]]

Returning(payload) ==
    [kind |-> "return", address |-> "", value |-> 0, result |-> payload]

\* The tool bodies of the calls the threads make, up to their return statement.
Dispatch(c) ==
    CASE c.op = "polynodes_play_stop" ->
            LET params == PlayStopInput(c.value) IN
            IF params.valid THEN Sending("/polynodes/playstartstop", params.state) ELSE Raising
      [] c.op = "polynodes_set_gain" ->
            LET params == GainInput(c.key, c.value) IN
            IF params.valid THEN Sending(addr_map_set_gain[params.level], params.value)
            ELSE Raising
      [] c.op = "polynodes_isomorph_mod_switch" ->
            LET p == strip(lower(c.key)) IN
            IF ~(c.value >= 0 /\ c.value <= 100) THEN Raising
            ELSE IF p \notin DOMAIN addr_map_isomorph_mod_switch
                 THEN Returning([kind |-> "error",
                                 body |-> [error |-> "param must be 'freq', 'amp', or 'res'"]])
                 ELSE Sending(addr_map_isomorph_mod_switch[p], c.value)
      [] c.op = "polynodes_list_osc_addresses" ->
            Returning([kind |-> "listing", body |-> addresses])

\* A thread is handed a tool call: validation and the tool body run on the
\* thread's own locals, up to the call of _send_osc.
mcp_tool(p) ==
    /\ pc[p] = "idle"
    /\ \E c \in ThreadCalls :
           LET d == Dispatch(c) IN
           /\ frame' = [frame EXCEPT ![p] = [@ EXCEPT !.call = c, !.address = d.address,
                                                      !.value = d.value, !.result = d.result]]
           /\ pc' = [pc EXCEPT ![p] = IF d.kind = "send" THEN "test" ELSE "done"]
           /\ ncalls' = ncalls + 1
           /\ accepted' = IF d.kind = "send" THEN accepted + 1 ELSE accepted
    /\ UNCHANGED <<osc_client, created, wire, lookups, call, result, workload>>


\* The test of a _get_client that leaves the creation to a thread already
\* at it, without waiting for that thread to store the client.
_get_client_test_skipping(p) ==
    /\ pc[p] = "test"
    /\ pc' = [pc EXCEPT ![p] =
                 IF osc_client = None /\ \A q \in Threads : pc[q] \notin {"construct", "store"}
                 THEN "construct" ELSE "return"]
    /\ UNCHANGED <<osc_client, created, wire, lookups, accepted, ncalls, call, result,
                   workload, frame>>

\* if _osc_client is None:
_get_client_test(p) ==
    /\ pc[p] = "test"
    /\ pc' = [pc EXCEPT ![p] = IF osc_client = None THEN "construct" ELSE "return"]
    /\ UNCHANGED <<osc_client, created, wire, lookups, accepted, ncalls, call, result,
                   workload, frame>>

\* udp_client.SimpleUDPClient(host, port), the right-hand side of line 33
_get_client_construct(p) ==
    /\ pc[p] = "construct"
    /\ frame' = [frame EXCEPT ![p].made = SimpleUDPClient(DEFAULT_HOST, DEFAULT_PORT)]
    /\ created' = created + 1
    /\ pc' = [pc EXCEPT ![p] = "store"]
    /\ UNCHANGED <<osc_client, wire, lookups, accepted, ncalls, call, result, workload>>

\* _osc_client = ..., the store of line 33
_get_client_store(p) ==
    /\ pc[p] = "store"
    /\ osc_client' = frame[p].made
    /\ pc' = [pc EXCEPT ![p] = "return"]
    /\ UNCHANGED <<created, wire, lookups, accepted, ncalls, call, result, workload, frame>>

\* return _osc_client, read again from the global, into client = _get_client()
_get_client_return(p) ==
    /\ pc[p] = "return"
    /\ frame' = [frame EXCEPT ![p].client = osc_client]
    /\ pc' = [pc EXCEPT ![p] = "send_message"]
    /\ UNCHANGED <<osc_client, created, wire, lookups, accepted, ncalls, call, result,
                   workload>>


\* send_message that takes the value from a buffer every call in progress
\* writes to.
send_message_shared_value(p) ==
    /\ pc[p] = "send_message"
    /\ \E delivered \in BOOLEAN, q \in {t \in Threads : pc[t] \notin {"idle", "done"}} :
           LET f == frame[p] IN
           /\ wire' = Append(wire, [client |-> f.client, address |-> f.address,
                                    value |-> frame[q].value, delivered |-> delivered])
           /\ frame' = [frame EXCEPT ![p].result =
                            IF delivered
                            THEN [kind |-> "sent",
                                  body |-> [status |-> "sent", address |-> f.address,
                                            value |-> f.value]]
                            ELSE [kind |-> "transport_error", body |-> "OSError"]]
    /\ pc' = [pc EXCEPT ![p] = "done"]
    /\ UNCHANGED <<osc_client, created, lookups, accepted, ncalls, call, result, workload>>

\* send_message that waits for the receiver's reply, which OSC over UDP
\* never sends.
send_message_awaiting_reply(p) ==
    /\ pc[p] = "send_message"
    /\ wire' = Append(wire, [client |-> frame[p].client, address |-> frame[p].address,
                             value |-> frame[p].value, delivered |-> TRUE])
    /\ pc' = [pc EXCEPT ![p] = "await_reply"]
    /\ UNCHANGED <<osc_client, created, lookups, accepted, ncalls, call, result, workload,
                   frame>>

\* client.send_message(address, value) and the return of the confirmation;
\* on None the attribute lookup raises and nothing is sent.
send_message(p) ==
    /\ pc[p] = "send_message"
    /\ \E delivered \in BOOLEAN :
           LET f == frame[p] IN
           IF f.client = None
           THEN /\ wire' = wire
                /\ frame' = [frame EXCEPT ![p].result =
                                 [kind |-> "attribute_error", body |-> "AttributeError"]]
           ELSE /\ wire' = Append(wire, [client |-> f.client, address |-> f.address,
                                         value |-> f.value, delivered |-> delivered])
                /\ frame' = [frame EXCEPT ![p].result =
                                 IF delivered
                                 THEN [kind |-> "sent",
                                       body |-> [status |-> "sent", address |-> f.address,
                                                 value |-> f.value]]
                                 ELSE [kind |-> "transport_error", body |-> "OSError"]]
    /\ pc' = [pc EXCEPT ![p] = "done"]
    /\ UNCHANGED <<osc_client, created, lookups, accepted, ncalls, call, result, workload>>

InitThreads ==
    /\ osc_client = None
    /\ created = 0
    /\ wire = <<>>
    /\ lookups = 0
    /\ accepted = 0
    /\ ncalls = 0
    /\ call = NoCall
    /\ result = NoResult
    /\ workload = "threads"
    /\ pc = [p \in Threads |-> "idle"]
    /\ frame = [p \in Threads |-> NoFrame]

\* The next statement of the call thread p is running.
Running(p) ==
    \/ _get_client_test(p)
    \/ _get_client_construct(p)
    \/ _get_client_store(p)
    \/ _get_client_return(p)
    \/ send_message(p)

\* Thread p starts a call or goes on with the one it is running.
Thread(p) == mcp_tool(p) \/ Running(p)

NextThreads == \E p \in Threads : Thread(p)

\* Concurrent calls under any interleaving of their statements.
SpecThreads == InitThreads /\ [][NextThreads]_vars

\* The same, with every thread that is running a call scheduled again and
\* again; whether a thread is handed a call at all is up to the caller.
SpecThreadsFair ==
    InitThreads /\ [][NextThreads]_vars /\ \A p \in Threads : WF_vars(Running(p))

----------------------------------------------------------------------------
\* Properties

\* A step that is one tool call.
IsCall == ncalls' = ncalls + 1

\* raw is key up to the case of its letters and whitespace around it.
NormalizesTo(raw, key) ==
    \E i \in 0..Len(raw) :
        /\ i + Len(key) <= Len(raw)
        /\ \A n \in 1..i : raw[n] \in whitespace
        /\ \A n \in (i + Len(key) + 1)..Len(raw) : raw[n] \in whitespace
        /\ \A n \in 1..Len(key) :
               \/ raw[i + n] = key[n]
               \/ raw[i + n] \in DOMAIN lowercase /\ lowercase[raw[i + n]] = key[n]

\* The tools that take a level, and the tools that take an isomorphic target.
LevelOps ==
    {"polynodes_set_gain", "polynodes_gain_solo", "polynodes_set_envelope_time",
     "polynodes_set_playback_rate", "polynodes_set_playback_rate_mod_range",
     "polynodes_filter_switch", "polynodes_set_filter_freq", "polynodes_set_filter_mod_range",
     "polynodes_comb_switch", "polynodes_set_comb_delay", "polynodes_set_comb_mod_range",
     "polynodes_blackhole_force", "polynodes_whitehole_force", "polynodes_ringmod_freq",
     "polynodes_cuboid_return_level"}

ParamOps == {"polynodes_isomorph_mod_switch", "polynodes_isomorph_mod_depth"}

KeysOf(op) ==
    IF op \in LevelOps THEN {macro, meso, micro}
    ELSE IF op \in ParamOps THEN {freq, amp, res}
    ELSE {}

\* The key a call's scope string stands for, as a set: empty when it stands for none.
KeyOf(c) == {k \in KeysOf(c.op) : NormalizesTo(c.key, k)}

\* The call's scope argument is in the enumerated set of its tool (or the tool has none).
ScopeValid(c) ==
    /\ c.op \in LevelOps \cup ParamOps => KeyOf(c) # {}
    /\ c.op = "polynodes_cuboid_switch" => c.cube \in {1, 2, 3}

\* The documented closed interval of every tool whose value has one fixed range.
FixedInterval ==
    ("polynodes_preset_slot" :> <<100, 1000>>) @@
    ("polynodes_set_bpm" :> <<1000, 30000>>) @@
    ("polynodes_set_gain" :> <<-8000, 2000>>) @@
    ("polynodes_set_dry_wet" :> <<0, 100>>) @@
    ("polynodes_set_envelope_time" :> <<1, 50>>) @@
    ("polynodes_set_playback_rate_mod_range" :> <<0, 75>>) @@
    ("polynodes_granular_duration" :> <<1000, 100000>>) @@
    ("polynodes_granular_duration_mod_range" :> <<0, 75>>) @@
    ("polynodes_set_filter_freq" :> <<8000, 800000>>) @@
    ("polynodes_set_filter_mod_range" :> <<0, 75>>) @@
    ("polynodes_set_comb_mod_range" :> <<0, 75>>) @@
    ("polynodes_blackhole_force" :> <<0, 100>>) @@
    ("polynodes_whitehole_force" :> <<0, 100>>) @@
    ("polynodes_ringmod_freq" :> <<100, 300>>) @@
    ("polynodes_crush_bit_level" :> <<0, 100>>) @@
    ("polynodes_crush_range" :> <<0, 500>>) @@
    ("polynodes_resonator_freq_dist" :> <<100, 300>>) @@
    ("polynodes_resonator_balance" :> <<0, 50>>) @@
    ("polynodes_cuboid_return_level" :> <<100, 8000>>) @@
    ("polynodes_isomorph_mod_depth" :> <<0, 200>>) @@
    ("polynodes_isomorph_bp_center" :> <<0, 500000>>)

\* The documented per-level intervals of the two tools whose range depends on the level.
PerLevelInterval ==
    ("polynodes_set_playback_rate" :>
        ((macro :> <<30, 1000>>) @@ (meso :> <<30, 2000>>) @@ (micro :> <<30, 3000>>))) @@
    ("polynodes_set_comb_delay" :>
        ((macro :> <<1000, 300000>>) @@ (meso :> <<1000, 100000>>) @@ (micro :> <<1000, 30000>>)))

Within(v, r) == r[1] <= v /\ v <= r[2]

\* The step rejects the call: it raises, and nothing reaches the transport.
Rejects ==
    /\ result'.kind = "rejected"
    /\ wire' = wire
    /\ accepted' = accepted

\* The step accepts the call and hands exactly one message to the transport.
SendsOne ==
    /\ result'.kind \in {"sent", "transport_error"}
    /\ accepted' = accepted + 1
    /\ Len(wire') = Len(wire) + 1
    /\ SubSeq(wire', 1, Len(wire)) = wire

\* C1: a tool with one fixed interval [min, max] accepts every value in the
\* closed interval, min and max included, and sends one message; it rejects
\* every value below min or above max and sends nothing.
C1_ClosedInterval ==
    [][(IsCall /\ call'.op \in DOMAIN FixedInterval /\ ScopeValid(call')) =>
          IF Within(call'.value, FixedInterval[call'.op]) THEN SendsOne ELSE Rejects]_vars

\* C1 witness: set_gain at its maximum, 20.0 dB, was accepted and sent.
C1_Witness ==
    /\ call.op = "polynodes_set_gain"
    /\ call.value = 2000
    /\ result.kind = "sent"
    /\ Len(wire) = 1

\* C2: set_playback_rate rejects a value outside the interval of its level
\* (macro 0.3..10, meso 0.3..20, micro 0.3..30) and sends nothing.
C2_PlaybackRatePerLevel ==
    [][(IsCall /\ call'.op = "polynodes_set_playback_rate") =>
          \A k \in KeyOf(call') :
              ~Within(call'.value, PerLevelInterval[call'.op][k]) => Rejects]_vars

\* C3: set_comb_delay rejects a value outside the interval of its level
\* (macro 10..3000, meso 10..1000, micro 10..300) and sends nothing.
C3_CombDelayPerLevel ==
    [][(IsCall /\ call'.op = "polynodes_set_comb_delay") =>
          \A k \in KeyOf(call') :
              ~Within(call'.value, PerLevelInterval[call'.op][k]) => Rejects]_vars

\* The address the server's own listing documents for each tool and scope key.
DocumentedAddress ==
    ("polynodes_set_gain" :>
        ((macro :> "/polynodes/MacroGain") @@
         (meso :> "/polynodes/MesoGain") @@
         (micro :> "/polynodes/MicroGain"))) @@
    ("polynodes_gain_solo" :>
        ((macro :> "/polynodes/MacroGainsolo") @@
         (meso :> "/polynodes/MesoGainsolo") @@
         (micro :> "/polynodes/MicroGainsolo"))) @@
    ("polynodes_set_envelope_time" :>
        ((macro :> "/polynodes/MacroEnvtime") @@
         (meso :> "/polynodes/MesoEnvtime") @@
         (micro :> "/polynodes/MicroEnvtime"))) @@
    ("polynodes_set_playback_rate" :>
        ((macro :> "/polynodes/pbrmacro") @@
         (meso :> "/polynodes/pbrmeso") @@
         (micro :> "/polynodes/pbrmicro"))) @@
    ("polynodes_set_playback_rate_mod_range" :>
        ((macro :> "/polynodes/pbrmacroMR") @@
         (meso :> "/polynodes/pbrmesoMR") @@
         (micro :> "/polynodes/pbrmicroMR"))) @@
    ("polynodes_filter_switch" :>
        ((macro :> "/polynodes/filtmacrosw") @@
         (meso :> "/polynodes/filtmesosw") @@
         (micro :> "/polynodes/filtmicrosw"))) @@
    ("polynodes_set_filter_freq" :>
        ((macro :> "/polynodes/filtmacro") @@
         (meso :> "/polynodes/filtmeso") @@
         (micro :> "/polynodes/filtmicro"))) @@
    ("polynodes_set_filter_mod_range" :>
        ((macro :> "/polynodes/filtmacroMR") @@
         (meso :> "/polynodes/filtmesoMR") @@
         (micro :> "/polynodes/filtmicroMR"))) @@
    ("polynodes_comb_switch" :>
        ((macro :> "/polynodes/combmacrosw") @@
         (meso :> "/polynodes/combmesosw") @@
         (micro :> "/polynodes/combmicrosw"))) @@
    ("polynodes_set_comb_delay" :>
        ((macro :> "/polynodes/combmacro") @@
         (meso :> "/polynodes/combmeso") @@
         (micro :> "/polynodes/combmicro"))) @@
    ("polynodes_set_comb_mod_range" :>
        ((macro :> "/polynodes/combmacroMR") @@
         (meso :> "/polynodes/combmesoMR") @@
         (micro :> "/polynodes/combmicroMR"))) @@
    ("polynodes_blackhole_force" :>
        ((macro :> "/polynodes/BHmacroforce") @@
         (meso :> "/polynodes/BHmesoforce") @@
         (micro :> "/polynodes/BHmicroforce"))) @@
    ("polynodes_whitehole_force" :>
        ((macro :> "/polynodes/WHmacroforce") @@
         (meso :> "/polynodes/WHmesoforce") @@
         (micro :> "/polynodes/WHmicroforce"))) @@
    ("polynodes_ringmod_freq" :>
        ((macro :> "/polynodes/RMmacro") @@
         (meso :> "/polynodes/RMmeso") @@
         (micro :> "/polynodes/RMmicro"))) @@
    ("polynodes_cuboid_return_level" :>
        ((macro :> "/polynodes/MacroreturnLvl") @@
         (meso :> "/polynodes/MesoreturnLvl") @@
         (micro :> "/polynodes/MicroreturnLvl"))) @@
    ("polynodes_isomorph_mod_switch" :>
        ((freq :> "/polynodes/isomfreqsw") @@
         (amp :> "/polynodes/isomampsw") @@
         (res :> "/polynodes/isomressw"))) @@
    ("polynodes_isomorph_mod_depth" :>
        ((freq :> "/polynodes/isomfreqmodr") @@
         (amp :> "/polynodes/isomampmodr") @@
         (res :> "/polynodes/isomresmodr")))

\* The values a tool documents as valid for the call's scope key.
DocumentedValue(c) ==
    IF c.op \in DOMAIN FixedInterval THEN Within(c.value, FixedInterval[c.op])
    ELSE IF c.op \in DOMAIN PerLevelInterval
         THEN \A k \in KeyOf(c) : Within(c.value, PerLevelInterval[c.op][k])
         ELSE c.value \in {0, 100}

\* C4: a scope argument that is a key of the tool's enumerated set once it is
\* lower-cased and trimmed is accepted, and the message goes to the address
\* documented for that key.
C4_ScopeNormalized ==
    [][(IsCall /\ call'.op \in LevelOps \cup ParamOps /\ DocumentedValue(call')) =>
          \A k \in KeyOf(call') :
              /\ SendsOne
              /\ wire'[Len(wire')].address = DocumentedAddress[call'.op][k]]_vars

\* C4 witness: set_gain with level " Meso " was sent to /polynodes/MesoGain.
C4_Witness ==
    /\ call.op = "polynodes_set_gain"
    /\ call.key = <<" ", "M", "e", "s", "o", " ">>
    /\ result.kind = "sent"
    /\ result.body.address = "/polynodes/MesoGain"

\* C5: a call whose scope key is not in the tool's enumerated set is turned
\* down before any address is resolved: no lookup, no client, no message.
C5_InvalidScopeBeforeResolution ==
    [][(IsCall /\ ~ScopeValid(call')) =>
          /\ result'.kind \in {"rejected", "error"}
          /\ lookups' = lookups
          /\ wire' = wire
          /\ osc_client' = osc_client
          /\ created' = created
          /\ accepted' = accepted]_vars

\* C5 witness: set_gain with level "giant" was rejected.
C5_Witness ==
    /\ call.op = "polynodes_set_gain"
    /\ call.key = <<"g", "i", "a", "n", "t">>
    /\ result.kind = "rejected"
    /\ wire = <<>>

\* Every (tool, scope key) pair of the tools that take a scope.
ScopedPairs ==
    {<<op, k>> : op \in LevelOps, k \in {macro, meso, micro}}
        \cup {<<op, k>> : op \in ParamOps, k \in {freq, amp, res}}
        \cup {<<"polynodes_cuboid_switch", n>> : n \in {1, 2, 3}}

\* The address map each scoped tool resolves its key in.
AddrMapOf(op) ==
    CASE op = "polynodes_set_gain" -> addr_map_set_gain
      [] op = "polynodes_gain_solo" -> addr_map_gain_solo
      [] op = "polynodes_set_envelope_time" -> addr_map_set_envelope_time
      [] op = "polynodes_set_playback_rate" -> addr_map_set_playback_rate
      [] op = "polynodes_set_playback_rate_mod_range" -> addr_map_set_playback_rate_mod_range
      [] op = "polynodes_filter_switch" -> addr_map_filter_switch
      [] op = "polynodes_set_filter_freq" -> addr_map_set_filter_freq
      [] op = "polynodes_set_filter_mod_range" -> addr_map_set_filter_mod_range
      [] op = "polynodes_comb_switch" -> addr_map_comb_switch
      [] op = "polynodes_set_comb_delay" -> addr_map_set_comb_delay
      [] op = "polynodes_set_comb_mod_range" -> addr_map_set_comb_mod_range
      [] op = "polynodes_blackhole_force" -> addr_map_blackhole_force
      [] op = "polynodes_whitehole_force" -> addr_map_whitehole_force
      [] op = "polynodes_ringmod_freq" -> addr_map_ringmod_freq
      [] op = "polynodes_cuboid_return_level" -> addr_map_cuboid_return_level
      [] op = "polynodes_isomorph_mod_switch" -> addr_map_isomorph_mod_switch
      [] op = "polynodes_isomorph_mod_depth" -> addr_map_isomorph_mod_depth
      [] op = "polynodes_cuboid_switch" -> [n \in {1, 2, 3} |-> cuboid_address(n)]

\* Every key of a scoped tool's enumerated set is a key of its address map.
RegistryComplete == \A p \in ScopedPairs : p[2] \in DOMAIN AddrMapOf(p[1])

\* The addresses the (tool, key) pairs resolve to.
RegistryAddresses == {AddrMapOf(p[1])[p[2]] : p \in ScopedPairs}

\* C6: every key of a scoped tool's enumerated set resolves to an address,
\* no two (tool, key) pairs resolve to the same address, and a scoped call
\* that was sent went to the address of its own (tool, key) pair.
C6_RegistryCompleteInjective ==
    /\ RegistryComplete
    /\ Cardinality(RegistryAddresses) = Cardinality(ScopedPairs)
    /\ (result.kind = "sent" /\ call.op \in LevelOps \cup ParamOps) =>
           \A k \in KeyOf(call) : wire[Len(wire)].address = AddrMapOf(call.op)[k]
    /\ (result.kind = "sent" /\ call.op = "polynodes_cuboid_switch") =>
           wire[Len(wire)].address = AddrMapOf(call.op)[call.cube]

\* C6 witness: blackhole_force and whitehole_force, both for meso, were sent
\* one after the other to two different addresses.
C6_Witness ==
    /\ Len(wire) = 2
    /\ wire[1].address = "/polynodes/BHmesoforce"
    /\ wire[2].address = "/polynodes/WHmesoforce"
    /\ call.op = "polynodes_whitehole_force"
    /\ result.kind = "sent"

\* No send has failed in the transport so far.
TransportNeverFailed == \A i \in 1..Len(wire) : wire[i].delivered

\* C7: while the transport does not fail, the messages handed to it are as
\* many as the accepted calls; a call that is accepted hands over exactly
\* one message and a call that is not hands over none.
C7_OneMessagePerAcceptedCall ==
    /\ [](TransportNeverFailed => Len(wire) = accepted)
    /\ [][IsCall =>
             /\ result'.kind = "sent" => SendsOne
             /\ result'.kind \in {"rejected", "error"} => (wire' = wire /\ accepted' = accepted)
             /\ accepted' = accepted + 1 => Len(wire') = Len(wire) + 1
             /\ accepted' = accepted => wire' = wire]_vars

\* C7 witness: two calls, one rejected and one sent, left one message.
C7_Witness ==
    /\ ncalls = 2
    /\ accepted = 1
    /\ Len(wire) = 1
    /\ TransportNeverFailed
    /\ result.kind = "rejected"

\* C8: the acknowledgment of an accepted call is {status: "sent", address,
\* value} with the address and the value handed to the transport, and that
\* value is the caller's value unchanged.
C8_AcknowledgmentEchoesMessage ==
    result.kind = "sent" =>
        /\ Len(wire) >= 1
        /\ result.body = [status |-> "sent",
                          address |-> wire[Len(wire)].address,
                          value |-> wire[Len(wire)].value]
        /\ wire[Len(wire)].value = call.value

\* C8 witness: set_gain(meso, -80.0) was acknowledged.
C8_Witness ==
    /\ call.op = "polynodes_set_gain"
    /\ call.key = meso
    /\ call.value = -8000
    /\ result = [kind |-> "sent",
                 body |-> [status |-> "sent", address |-> "/polynodes/MesoGain", value |-> -8000]]

\* C9: raw send validates nothing and resolves nothing: whatever the address
\* and the value, the call is accepted, exactly that pair is handed to the
\* transport, and the acknowledgment echoes it.
C9_RawSendVerbatim ==
    [][(IsCall /\ call'.op = "polynodes_send_raw_osc") =>
          /\ SendsOne
          /\ lookups' = lookups
          /\ wire'[Len(wire')].address = call'.address
          /\ wire'[Len(wire')].value = call'.value
          /\ result'.kind = "sent" =>
                 result'.body = [status |-> "sent", address |-> call'.address,
                                 value |-> call'.value]]_vars

\* C9 witness: raw send to an address that is no OSC address pattern was sent.
C9_Witness ==
    /\ call.op = "polynodes_send_raw_osc"
    /\ call.address = "no-slash"
    /\ call.value = -1
    /\ result.kind = "sent"
    /\ wire[Len(wire)].address = "no-slash"

\* The categories the listing groups the registry by.
Categories ==
    {"transport", "gain", "envelope", "playback_rate", "granulator", "bandpass_filter",
     "comb_filter", "blackhole", "whitehole", "ring_modulator", "bitcrusher", "resonator",
     "cuboid_fx", "isomorph", "navigation", "tuning", "camera"}

\* C10: the listing is read-only: it hands nothing to the transport, does
\* not create the client, changes no other state, and returns the registry
\* grouped by category.
C10_ListingReadOnly ==
    [][(IsCall /\ call'.op = "polynodes_list_osc_addresses") =>
          /\ UNCHANGED <<osc_client, created, wire, lookups, accepted>>
          /\ result'.kind = "listing"
          /\ DOMAIN result'.body = Categories
          /\ \A g \in Categories : DOMAIN result'.body[g] # {}]_vars

\* C10 witness: the listing was called as the first call of the process:
\* there is still no client and nothing was sent.
C10_Witness ==
    /\ call.op = "polynodes_list_osc_addresses"
    /\ result.kind = "listing"
    /\ ncalls = 1
    /\ osc_client = None
    /\ wire = <<>>

\* The message of the last hand-off in w.
Last(w) == w[Len(w)]

C12_CallOrderPreserved ==
    [][(IsCall /\ accepted' = accepted + 1) =>
          /\ Len(wire') = Len(wire) + 1
          /\ SubSeq(wire', 1, Len(wire)) = wire
          /\ Last(wire').value = call'.value
          /\ call'.op = "polynodes_play_stop" =>
                 Last(wire').address = "/polynodes/playstartstop"
          /\ call'.op = "polynodes_camera_zoom" =>
                 Last(wire').address = "/polynodes/camzoom"]_vars

\* C12 witness: camera_zoom(0.01) and then camera_zoom(0.0) were called: the
\* transport got /polynodes/camzoom 0.01 first and /polynodes/camzoom 0.0 second.
C12_Witness ==
    /\ ncalls = 2
    /\ call.op = "polynodes_camera_zoom"
    /\ call.value = 0
    /\ Len(wire) = 2
    /\ wire[1].address = "/polynodes/camzoom"
    /\ wire[1].value = 1
    /\ wire[2].address = "/polynodes/camzoom"
    /\ wire[2].value = 0

\* C13: the creation of the shared client is synchronized: under any
\* interleaving of concurrent first calls at most one client is ever
\* constructed.
C13_AtMostOneClientCreated == created <= 1

\* C14: in a sequential run the client is created lazily and reused: there is
\* none before the first sending call, that call creates the only one, every
\* message goes through it to 127.0.0.1:4799, and once stored it is never
\* reset or replaced.
C14_ClientLazyAndReused ==
    /\ [](wire = <<>> => (osc_client = None /\ created = 0))
    /\ [](wire # <<>> =>
             /\ created = 1
             /\ osc_client # None
             /\ osc_client.host = "127.0.0.1"
             /\ osc_client.port = 4799
             /\ \A i \in 1..Len(wire) : wire[i].client = osc_client)
    /\ [][osc_client # None => osc_client' = osc_client]_vars

\* C14 witness: the second of two sending calls, to another address, went
\* through the client the first one created.
C14_Witness ==
    /\ ncalls = 2
    /\ Len(wire) = 2
    /\ created = 1
    /\ wire[1].client = osc_client
    /\ wire[2].client = osc_client
    /\ wire[1].address # wire[2].address

\* The documented address of each cuboid's switch.
CuboidSwitchAddress ==
    (1 :> "/polynodes/C1sw") @@ (2 :> "/polynodes/C2sw") @@ (3 :> "/polynodes/C3sw")

\* C15: cuboid_switch with a cube outside {1, 2, 3} is rejected before
\* anything reaches the transport: no message, no address, no client; with a
\* cube in {1, 2, 3} and a state in [0, 1] it sends the state to
\* /polynodes/C<cube>sw.
C15_CuboidIndexChecked ==
    [][(IsCall /\ call'.op = "polynodes_cuboid_switch") =>
          /\ call'.cube \notin {1, 2, 3} =>
                 /\ Rejects
                 /\ UNCHANGED <<osc_client, created, lookups>>
          /\ (call'.cube \in {1, 2, 3} /\ call'.value >= 0 /\ call'.value <= 100) =>
                 /\ SendsOne
                 /\ Last(wire').address = CuboidSwitchAddress[call'.cube]
                 /\ Last(wire').value = call'.value]_vars

\* C15 witness: cuboid_switch(cube=4, state=1.0) was rejected and nothing was sent.
C15_Witness ==
    /\ call.op = "polynodes_cuboid_switch"
    /\ call.cube = 4
    /\ call.value = 100
    /\ result.kind = "rejected"
    /\ wire = <<>>
    /\ osc_client = None

\* The step answers with the payload {"error": message} and sends nothing.
ReturnsErrorPayload ==
    /\ result'.kind = "error"
    /\ DOMAIN result'.body = {"error"}
    /\ result'.body.error # ""
    /\ wire' = wire
    /\ accepted' = accepted

DocumentedCall(c) ==
    /\ c.op # "polynodes_list_osc_addresses"
    /\ ScopeValid(c)
    /\ DocumentedValue(c)

\* C17: a call that failed, by a validation rejection or by a transport
\* error, leaves later calls as they would have been: the client it used is
\* still the stored client, the next call finds the stored client unchanged,
\* and a valid next call is accepted and hands over its one message, to its
\* documented address, with its own value, through that client.
C17_FailureDoesNotAffectLaterCalls ==
    /\ [](result.kind = "transport_error" =>
             (osc_client # None /\ osc_client = Last(wire).client))
    /\ [][(IsCall /\ result.kind \in {"rejected", "error", "transport_error"}) =>
             /\ osc_client # None => osc_client' = osc_client
             /\ DocumentedCall(call') =>
                    /\ SendsOne
                    /\ Last(wire').value = call'.value
                    /\ Last(wire').client = osc_client'
                    /\ call'.op \in LevelOps \cup ParamOps =>
                           \A k \in KeyOf(call') :
                               Last(wire').address = DocumentedAddress[call'.op][k]]_vars

\* C17 witness: the first call's send failed in the transport; the second
\* call was accepted, went through the same client and was acknowledged.
C17_Witness ==
    /\ ncalls = 2
    /\ Len(wire) = 2
    /\ ~wire[1].delivered
    /\ wire[2].delivered
    /\ wire[2].client = wire[1].client
    /\ osc_client = wire[1].client
    /\ result.kind = "sent"
    /\ call.op = "polynodes_set_gain"

\* C18: no retries: an accepted call makes exactly one send attempt; when
\* that attempt fails the failure is what the caller gets, there is no
\* second attempt and no {status: "sent"} acknowledgment.
C18_NoRetry ==
    [][IsCall =>
          /\ Len(wire') <= Len(wire) + 1
          /\ accepted' = accepted + 1 =>
                 /\ Len(wire') = Len(wire) + 1
                 /\ SubSeq(wire', 1, Len(wire)) = wire
          /\ (Len(wire') = Len(wire) + 1 /\ ~Last(wire').delivered) =>
                 /\ result'.kind = "transport_error"
                 /\ result'.body = "OSError"]_vars

\* C18 witness: the only send attempt of set_gain(" Meso ", -80.0) failed and
\* the call ended with the transport's error.
C18_Witness ==
    /\ ncalls = 1
    /\ accepted = 1
    /\ call.op = "polynodes_set_gain"
    /\ Len(wire) = 1
    /\ ~wire[1].delivered
    /\ result.kind = "transport_error"

\* Thread p has handed its message to the transport.
HandedOver(p) == pc[p] = "done" /\ frame[p].result.kind \in {"sent", "transport_error"}

\* The address and value the documentation gives for an accepted call c of
\* play_stop or of a tool with a scope.
MessageOf(c) ==
    [address |-> IF c.op = "polynodes_play_stop" THEN "/polynodes/playstartstop"
                 ELSE DocumentedAddress[c.op][CHOOSE k \in KeyOf(c) : TRUE],
     value |-> c.value]

\* C19: concurrent sends do not corrupt each other: every message handed to
\* the transport is the address and the value of one single call, never the
\* address of one call with the value of another, and each send is one
\* hand-off: as many messages as calls that have sent.
C19_ConcurrentSendsIntact ==
    /\ \A i \in 1..Len(wire) :
           \E p \in Threads :
               /\ HandedOver(p)
               /\ wire[i].address = MessageOf(frame[p].call).address
               /\ wire[i].value = MessageOf(frame[p].call).value
    /\ Len(wire) = Cardinality({p \in Threads : HandedOver(p)})

\* C19 witness: play_stop(1.0) has been handed over while the call
\* set_gain(" Meso ", -80.0) of another thread is about to send.
C19_Witness ==
    /\ Len(wire) = 1
    /\ wire[1].address = "/polynodes/playstartstop"
    /\ wire[1].value = 100
    /\ \E p \in Threads :
           /\ pc[p] = "send_message"
           /\ frame[p].address = "/polynodes/MesoGain"
           /\ frame[p].value = -8000

\* The call of thread p is over: it was acknowledged, answered with a
\* payload, rejected by validation, or failed with the transport's error.
Completed(p) ==
    /\ pc[p] = "done"
    /\ frame[p].result.kind \in {"sent", "error", "listing", "rejected", "transport_error"}

\* C20: no operation suspends indefinitely: every call, once started,
\* eventually completes, whatever the other threads do; no call is left
\* waiting for a reply.
C20_EveryCallCompletes ==
    \A p \in Threads : (pc[p] # "idle") ~> Completed(p)

\* C20 witness: every thread's call is over, one with an acknowledgment and
\* one with the transport's error.
C20_Witness ==
    /\ \A p \in Threads : Completed(p)
    /\ \E p \in Threads : frame[p].result.kind = "sent"
    /\ \E p \in Threads : frame[p].result.kind = "transport_error"

\* C21: within isomorph_mod_switch validation failures come in one style: an
\* invalid target and an out-of-range state are reported the same way, so two
\* calls of it that fail validation one after the other fail alike.
C21_OneFailureStyle ==
    [][(/\ IsCall
        /\ call.op = "polynodes_isomorph_mod_switch"
        /\ call'.op = "polynodes_isomorph_mod_switch"
        /\ result.kind \in {"rejected", "error"}
        /\ result'.kind \in {"rejected", "error"}) =>
          result'.kind = result.kind]_vars

\* The switch, solo and trigger tools.
SwitchOps ==
    {"polynodes_play_stop", "polynodes_gain_solo", "polynodes_granular_switch",
     "polynodes_filter_switch", "polynodes_comb_switch", "polynodes_blackhole_switch",
     "polynodes_whitehole_switch", "polynodes_ringmod_switch", "polynodes_crush_switch",
     "polynodes_resonator_switch", "polynodes_cuboid_switch", "polynodes_isomorph_switch",
     "polynodes_isomorph_mod_switch", "polynodes_navigation_random_trigger",
     "polynodes_rearrange_trigger", "polynodes_poly_gates_switch",
     "polynodes_tuning_pb_switch", "polynodes_tuning_res_switch"}

\* C22: every message a switch, solo or trigger tool sends carries exactly
\* 0.0 or exactly 1.0; a call with any other value is turned down and sends
\* nothing.
C22_SwitchValueBinary ==
    [][(IsCall /\ call'.op \in SwitchOps) =>
          /\ Len(wire') > Len(wire) => Last(wire').value \in {0, 100}
          /\ call'.value \notin {0, 100} =>
                 /\ result'.kind \in {"rejected", "error"}
                 /\ wire' = wire]_vars

\* The addresses the listing returns, over all its categories.
ListedAddresses == UNION {DOMAIN addresses[g] : g \in DOMAIN addresses}

\* Some call of a tool other than send_raw_osc can send to address a.
Reachable(a) ==
    ENABLED (/\ Next
             /\ call'.op # "polynodes_send_raw_osc"
             /\ Len(wire') = Len(wire) + 1
             /\ Last(wire').address = a)

\* C23: the listing and the dispatcher agree: every message a tool other than
\* send_raw_osc sends goes to an address the listing returns, and every
\* address the listing returns is one that some call of such a tool sends to.
C23_ListingMatchesDispatcher ==
    /\ [](ncalls = 0 => \A a \in ListedAddresses : Reachable(a))
    /\ [][(IsCall /\ call'.op = "polynodes_list_osc_addresses") =>
             ListedAddresses = UNION {DOMAIN result'.body[g] : g \in DOMAIN result'.body}]_vars
    /\ [][(IsCall /\ call'.op # "polynodes_send_raw_osc" /\ Len(wire') > Len(wire)) =>
             Last(wire').address \in ListedAddresses]_vars

\* C23 witness: cuboid_switch for cube 3 sent to /polynodes/C3sw, an address
\* the listing returns.
C23_Witness ==
    /\ call.op = "polynodes_cuboid_switch"
    /\ call.cube = 3
    /\ Len(wire) = 1
    /\ wire[1].address = "/polynodes/C3sw"
    /\ wire[1].address \in ListedAddresses

\* C24: a call that fails validation leaves the shared transport state as it
\* was: where there was no client there is none after it, an existing client
\* is not replaced, none is constructed and nothing is sent; this holds for
\* rejected calls and for isomorph_mod_switch answering an invalid target.
C24_RejectedCallLeavesClient ==
    [][(IsCall /\ result'.kind \in {"rejected", "error"}) =>
          /\ osc_client' = osc_client
          /\ created' = created
          /\ wire' = wire]_vars

\* C24 witness: after a first call created the client and sent through it,
\* isomorph_mod_switch with an invalid target returned its error payload and
\* the client is still the one of the first call.
C24_Witness ==
    /\ ncalls = 2
    /\ call.op = "polynodes_isomorph_mod_switch"
    /\ result.kind = "error"
    /\ created = 1
    /\ Len(wire) = 1
    /\ osc_client # None
    /\ osc_client = wire[1].client

\* How many messages of w carry the address and the value of m.
Handoffs(w, m) ==
    Cardinality({i \in 1..Len(w) : w[i].address = m.address /\ w[i].value = m.value})

\* C25: the race on the client's creation loses and duplicates no message:
\* under any interleaving, every accepted call gets a client that is not
\* None from _get_client and hands its message to a client exactly once,
\* also when more than one client is constructed.
C25_InitRaceKeepsMessages ==
    /\ \A p \in Threads : pc[p] = "send_message" => frame[p].client # None
    /\ \A p \in Threads :
           (pc[p] = "done" /\ DocumentedCall(frame[p].call)) => HandedOver(p)
    /\ \A i \in 1..Len(wire) : wire[i].client # None
    /\ \A p \in Threads :
           HandedOver(p) =>
               Handoffs(wire, MessageOf(frame[p].call)) =
                   Cardinality({q \in Threads :
                                   /\ HandedOver(q)
                                   /\ MessageOf(frame[q].call) = MessageOf(frame[p].call)})
    /\ Len(wire) = Cardinality({p \in Threads : HandedOver(p)})

\* C25 witness: two concurrent first calls each constructed a client, and
\* each call's message was handed over once, through different clients.
C25_Witness ==
    /\ created = 2
    /\ \A p \in Threads : Completed(p)
    /\ Len(wire) = 2
    /\ wire[1].client # wire[2].client
    /\ wire[1].address # wire[2].address

====
